---- MODULE Spec2Model ----
(***************************************************************************)
(* Model of internal/model1/header.go: the table header (a slice of        *)
(* HeaderColumn), its lookups, its customization by column specs, and its  *)
(* Clone/Diff operations.                                                  *)
(*                                                                         *)
(* Strings are sequences of pieces.  A piece is one of the characters the  *)
(* column-spec pattern treats specially (":", "[", "]", " ", "\n") or a    *)
(* word of ordinary characters ("LABELS", "AGE", "g").  No word is a       *)
(* prefix of another, so two piece sequences are equal exactly when the    *)
(* strings they spell are equal.  Indices are Go's: 0-based, -1 = none.    *)
(***************************************************************************)
EXTENDS Integers, Sequences, FiniteSets, TLC

VARIABLES h, cols, arg, wide, op, out, heap, hs, hc, steps

vars == <<h, cols, arg, wide, op, out, heap, hs, hc, steps>>

\* ------------------------------------------------------------------ bounds
MaxCols == 3

MaxSpecs == 2

MaxSpecLen == 5

MaxHeapCols == 2

MaxSteps == 3

\* --------------------------------------------------------------- strings
ageCol == <<"AGE">>

LABELS == <<"LABELS">>

IsSpace(c) == c \in {" ", "\n"}

SeqsUpTo(S, n) == UNION {[1..k -> S] : k \in 0..n}

RECURSIVE TrimLeft(_)
TrimLeft(s) ==
    IF s # <<>> /\ IsSpace(Head(s)) THEN TrimLeft(Tail(s)) ELSE s

RECURSIVE TrimRight(_)
TrimRight(s) ==
    IF s # <<>> /\ IsSpace(s[Len(s)]) THEN TrimRight(SubSeq(s, 1, Len(s) - 1)) ELSE s

\* strings.TrimSpace
TrimSpace(s) == TrimRight(TrimLeft(s))

\* ------------------------------------------------------------ the pattern
\* ^(?:([^:]+):\s*)?(.*)\[(.*)\]$   with Go's leftmost-first choice:
\* the optional prefix is tried before its absence, \s* and both .* are
\* greedy, "." does not match a line break, "$" is the end of the text.
NoNL(s, a, b) == \A i \in a..b : s[i] # "\n"

\* Positions lb of the "[" that close a match whose group 2 starts at `from`.
Brackets(s, from) ==
    {lb \in from..(Len(s) - 1) :
        /\ s[lb] = "["
        /\ s[Len(s)] = "]"
        /\ NoNL(s, from, lb - 1)
        /\ NoNL(s, lb + 1, Len(s) - 1)}

Max(S) == CHOOSE x \in S : \A y \in S : y <= x

Min(S) == CHOOSE x \in S : \A y \in S : x <= y

Colons(s) == {i \in 1..Len(s) : s[i] = ":"}

\* The first colon, when at least one character precedes it: the end of
\* [^:]+ in any parse that takes the prefix; 0 when no parse can take it.
PrefixColon(s) ==
    IF Colons(s) = {} \/ Min(Colons(s)) < 2 THEN 0 ELSE Min(Colons(s))

\* The lengths w of \s* after the colon c that some parse completes.
PrefixParses(s, c) ==
    {w \in 0..(Len(s) - c) :
        /\ \A i \in (c + 1)..(c + w) : IsSpace(s[i])
        /\ Brackets(s, c + w + 1) # {}}

\* rgx.FindStringSubmatch: <<whole, group 1, group 2, group 3>>, or <<>> (nil).
rgxFindStringSubmatch(s) ==
    LET c == PrefixColon(s)
    IN  IF c # 0 /\ PrefixParses(s, c) # {} THEN
            LET w  == Max(PrefixParses(s, c))
                lb == Max(Brackets(s, c + w + 1))
            IN  <<s, SubSeq(s, 1, c - 1), SubSeq(s, c + w + 1, lb - 1),
                  SubSeq(s, lb + 1, Len(s) - 1)>>
        ELSE IF Brackets(s, 1) # {} THEN
            LET lb == Max(Brackets(s, 1))
            IN  <<s, <<>>, SubSeq(s, 1, lb - 1), SubSeq(s, lb + 1, Len(s) - 1)>>
        ELSE <<>>

rgxMatchString(s) == rgxFindStringSubmatch(s) # <<>>

\* --------------------------------------------------------------- columns
HeaderColumn(name, align, dec, w, mx, time, cap, vs) ==
    [Name |-> name, Align |-> align, Decorator |-> dec, Wide |-> w,
     MX |-> mx, Time |-> time, Capacity |-> cap, VS |-> vs]

\* HeaderColumn{Name: name}
NamedColumn(name) == HeaderColumn(name, 0, "nil", FALSE, FALSE, FALSE, FALSE, FALSE)

\* (mutant) the copy loses a role flag
ColumnCloneDropsVS(c) == [c EXCEPT !.VS = FALSE]

\* HeaderColumn.Clone: a struct copy; the Decorator handle is copied as is.
ColumnClone(c) == c

ExtractionInfo(idx, custom, header, key) ==
    [IdxInFields |-> idx, CustomName |-> custom, HeaderName |-> header, Key |-> key]

\* the zero ExtractionInfo a map read of a missing key yields
ZeroExtractionInfo == ExtractionInfo(0, <<>>, <<>>, <<>>)

BagGet(eib, i) == IF i \in DOMAIN eib THEN eib[i] ELSE ZeroExtractionInfo

EmptyBag == [x \in {} |-> ZeroExtractionInfo]

\* ---------------------------------------------------------------- IndexOf
\* (mutant) wide columns are never skipped
RECURSIVE IndexOfFromNoSkip(_, _, _, _)
IndexOfFromNoSkip(hd, colName, includeWide, i) ==
    IF i >= Len(hd) THEN [idx |-> -1, ok |-> FALSE]
    ELSE IF hd[i + 1].Name = colName THEN [idx |-> i, ok |-> TRUE]
    ELSE IndexOfFromNoSkip(hd, colName, includeWide, i + 1)

\* The scan of IndexOf from index i on.
RECURSIVE IndexOfFrom(_, _, _, _)
IndexOfFrom(hd, colName, includeWide, i) ==
    IF i >= Len(hd) THEN [idx |-> -1, ok |-> FALSE]
    ELSE IF hd[i + 1].Wide /\ ~includeWide
         THEN IndexOfFrom(hd, colName, includeWide, i + 1)
    ELSE IF hd[i + 1].Name = colName THEN [idx |-> i, ok |-> TRUE]
    ELSE IndexOfFrom(hd, colName, includeWide, i + 1)

IndexOf(hd, colName, includeWide) == IndexOfFrom(hd, colName, includeWide, 0)

HasAge(hd) == IndexOf(hd, ageCol, TRUE).ok

\* ------------------------------------------------------------- MapIndices
\* (mutant) the custom name is stored untrimmed
MapStepNoTrim(hd, col, ii, eib) ==
    LET ii2     == Append(ii, IndexOf(hd, col, TRUE).idx)
        matches == rgxFindStringSubmatch(col)
    IN  IF ~rgxMatchString(col) THEN [ii |-> ii2, eib |-> eib]
        ELSE IF Len(matches) < 4 THEN [ii |-> ii2, eib |-> eib]
        ELSE IF matches[3] # LABELS THEN [ii |-> ii2, eib |-> eib]
        ELSE [ii  |-> ii2,
              eib |-> ((Len(ii2) - 1) :>
                         ExtractionInfo(IndexOf(hd, matches[3], TRUE).idx,
                                        matches[2], matches[3], matches[4]))
                      @@ eib]

\* (mutant) the index is appended only once the spec passed the pattern
MapStepLateAppend(hd, col, ii, eib) ==
    LET ii2     == Append(ii, IndexOf(hd, col, TRUE).idx)
        matches == rgxFindStringSubmatch(col)
    IN  IF ~rgxMatchString(col) THEN [ii |-> ii, eib |-> eib]
        ELSE IF Len(matches) < 4 THEN [ii |-> ii2, eib |-> eib]
        ELSE IF matches[3] # LABELS THEN [ii |-> ii2, eib |-> eib]
        ELSE [ii  |-> ii2,
              eib |-> ((Len(ii2) - 1) :>
                         ExtractionInfo(IndexOf(hd, matches[3], TRUE).idx,
                                        TrimSpace(matches[2]), matches[3], matches[4]))
                      @@ eib]

\* (mutant) the header name of a matching spec is not checked
MapStepAnyHeader(hd, col, ii, eib) ==
    LET ii2     == Append(ii, IndexOf(hd, col, TRUE).idx)
        matches == rgxFindStringSubmatch(col)
    IN  IF ~rgxMatchString(col) THEN [ii |-> ii2, eib |-> eib]
        ELSE IF Len(matches) < 4 THEN [ii |-> ii2, eib |-> eib]
        ELSE [ii  |-> ii2,
              eib |-> ((Len(ii2) - 1) :>
                         ExtractionInfo(IndexOf(hd, matches[3], TRUE).idx,
                                        TrimSpace(matches[2]), matches[3], matches[4]))
                      @@ eib]

\* One iteration of the loop over cols: ii always grows by one; the bag
\* gets an entry at len(ii)-1 only for a match whose group 2 is "LABELS".
MapStep(hd, col, ii, eib) ==
    LET ii2     == Append(ii, IndexOf(hd, col, TRUE).idx)
        matches == rgxFindStringSubmatch(col)
    IN  IF ~rgxMatchString(col) THEN [ii |-> ii2, eib |-> eib]
        ELSE IF Len(matches) < 4 THEN [ii |-> ii2, eib |-> eib]
        ELSE IF matches[3] # LABELS THEN [ii |-> ii2, eib |-> eib]
        ELSE [ii  |-> ii2,
              eib |-> ((Len(ii2) - 1) :>
                         ExtractionInfo(IndexOf(hd, matches[3], TRUE).idx,
                                        TrimSpace(matches[2]), matches[3], matches[4]))
                      @@ eib]

RECURSIVE MapLoop(_, _, _, _, _)
MapLoop(hd, cc, k, ii, eib) ==
    IF k > Len(cc) THEN [ii |-> ii, eib |-> eib]
    ELSE LET r == MapStep(hd, cc[k], ii, eib)
         IN  MapLoop(hd, cc, k + 1, r.ii, r.eib)

MapIndices(hd, cc, w) == MapLoop(hd, cc, 1, <<>>, EmptyBag)

\* -------------------------------------------------------------- Customize
\* (mutant) the found column's index is not recorded as consumed
CustomizeStepNoMark(hd, col, eib, i, res, xx) ==
    LET r == IndexOf(hd, col, TRUE)
    IN  IF ~r.ok
        THEN [cc |-> Append(res, NamedColumn(BagGet(eib, i).CustomName)), xx |-> xx]
        ELSE [cc |-> Append(res, [ColumnClone(hd[r.idx + 1]) EXCEPT !.Wide = FALSE]),
              xx |-> xx]

\* One iteration of the loop over cols: cc is the result so far, xx the set
\* of consumed indices of hd.
CustomizeStep(hd, col, eib, i, res, xx) ==
    LET r == IndexOf(hd, col, TRUE)
    IN  IF ~r.ok
        THEN [cc |-> Append(res, NamedColumn(BagGet(eib, i).CustomName)), xx |-> xx]
        ELSE [cc |-> Append(res, [ColumnClone(hd[r.idx + 1]) EXCEPT !.Wide = FALSE]),
              xx |-> xx \cup {r.idx}]

RECURSIVE CustomizeLoop(_, _, _, _, _, _)
CustomizeLoop(hd, cc, eib, i, res, xx) ==
    IF i >= Len(cc) THEN [cc |-> res, xx |-> xx]
    ELSE LET r == CustomizeStep(hd, cc[i + 1], eib, i, res, xx)
         IN  CustomizeLoop(hd, cc, eib, i + 1, r.cc, r.xx)

\* (mutant) the appended column keeps its own Wide flag
WideStepKeep(hd, xx, i, res) ==
    IF i \in xx THEN res ELSE Append(res, ColumnClone(hd[i + 1]))

\* One iteration of the loop that adds the wide columns: an unconsumed
\* column of hd is appended, forced wide.
WideStep(hd, xx, i, res) ==
    IF i \in xx THEN res
    ELSE Append(res, [ColumnClone(hd[i + 1]) EXCEPT !.Wide = TRUE])

RECURSIVE AddWide(_, _, _, _)
AddWide(hd, xx, i, res) ==
    IF i >= Len(hd) THEN res
    ELSE AddWide(hd, xx, i + 1, WideStep(hd, xx, i, res))

\* (mutant) no early return for an empty spec list
CustomizeNoGuard(hd, cc, w) ==
    LET eib == MapIndices(hd, cc, w).eib
        r   == CustomizeLoop(hd, cc, eib, 0, <<>>, {})
    IN  IF ~w THEN r.cc ELSE AddWide(hd, r.xx, 0, r.cc)

Customize(hd, cc, w) ==
    IF Len(cc) = 0 THEN hd
    ELSE LET eib == MapIndices(hd, cc, w).eib
             r   == CustomizeLoop(hd, cc, eib, 0, <<>>, {})
         IN  IF ~w THEN r.cc ELSE AddWide(hd, r.xx, 0, r.cc)

\* ------------------------------------------------------------ the inputs
\* Columns differ in name, in Wide, and in every other field.
Plain(name, w) == HeaderColumn(name, 0, "nil", w, FALSE, FALSE, FALSE, FALSE)

Rich(name, w) == HeaderColumn(name, 1, "d1", w, TRUE, TRUE, TRUE, TRUE)

ColPool == UNION {{Plain(n, TRUE), Rich(n, FALSE)} : n \in {ageCol, LABELS}}

SpecPool ==
    {ageCol, LABELS,
     <<"g", ":", " ", "LABELS", "[", "g", "]">>,
     <<" ", "g", " ", ":", "LABELS", "[", "g", "]">>,
     <<"g", ":", "AGE", "[", "g", "]">>}

\* the pieces of the exhaustively enumerated specs; "LABELS" is the one word
Alphabet == {"LABELS", ":", " ", "[", "]", "\n"}

\* the header the exhaustively enumerated specs are resolved against
FixedHeader ==
    <<Rich(ageCol, FALSE), Plain(LABELS, TRUE), Plain(<<"LABELS", "[", "]">>, FALSE)>>

Inputs ==
    (SeqsUpTo(ColPool, MaxCols) \X SeqsUpTo(SpecPool, MaxSpecs))
    \cup ({FixedHeader} \X {<<s>> : s \in SeqsUpTo(Alphabet, MaxSpecLen)})

NoSlice == [nil |-> TRUE, ptr |-> 0, len |-> 0, cap |-> 0]

PureInit ==
    /\ \E in \in Inputs : h = in[1] /\ cols = in[2]
    /\ arg = <<>>
    /\ wide = FALSE
    /\ op = "init"
    /\ out = <<>>
    /\ heap = <<>>
    /\ hs = NoSlice
    /\ hc = NoSlice
    /\ steps = 0

\* ------------------------------------------------- customization machine
DoCustomize ==
    /\ op = "init"
    /\ \E w \in BOOLEAN :
          /\ wide' = w
          /\ out' = Customize(h, cols, w)
    /\ op' = "Customize"
    /\ UNCHANGED <<h, cols, arg, heap, hs, hc, steps>>

CustomizeNext == DoCustomize

SpecCustomize == PureInit /\ [][CustomizeNext]_vars

\* --------------------------------------------------- resolution machine
\* MapIndices takes wide and does not read it.
DoMapIndices ==
    /\ op = "init"
    /\ \E w \in BOOLEAN :
          /\ wide' = w
          /\ out' = MapIndices(h, cols, w)
    /\ op' = "MapIndices"
    /\ UNCHANGED <<h, cols, arg, heap, hs, hc, steps>>

MapIndicesNext == DoMapIndices

SpecMapIndices == PureInit /\ [][MapIndicesNext]_vars

\* ------------------------------------------------------ lookup machine
NamePool == {ageCol, LABELS, <<"g">>}

LookupInit ==
    /\ h \in SeqsUpTo(ColPool, MaxCols)
    /\ arg \in NamePool
    /\ cols = <<>>
    /\ wide = FALSE
    /\ op = "init"
    /\ out = <<>>
    /\ heap = <<>>
    /\ hs = NoSlice
    /\ hc = NoSlice
    /\ steps = 0

DoIndexOf ==
    /\ op = "init"
    /\ \E includeWide \in BOOLEAN :
          /\ wide' = includeWide
          /\ out' = IndexOf(h, arg, includeWide)
    /\ op' = "IndexOf"
    /\ UNCHANGED <<h, cols, arg, heap, hs, hc, steps>>

DoHasAge ==
    /\ op = "init"
    /\ out' = HasAge(h)
    /\ op' = "HasAge"
    /\ UNCHANGED <<h, cols, arg, wide, heap, hs, hc, steps>>

LookupNext == DoIndexOf \/ DoHasAge

SpecLookup == LookupInit /\ [][LookupNext]_vars

\* ------------------------------------------------------- slice machine
\* A Header is a Go slice: nil or not, a backing array (ptr indexes heap,
\* 0 = no storage), a length and a capacity.  heap[p] is the whole array,
\* cap cells long.  The machine clones a source header hs into hc, then
\* writes to, appends on and clears either header, and compares them.
\* arg and out hold the argument and the result of the last Diff call.
ViewOf(hp, s) == IF s.len = 0 THEN <<>> ELSE SubSeq(hp[s.ptr], 1, s.len)

\* make(Header, 0, n): a fresh array of n zero cells (none when n = 0)
MakeSlice(hp, n) ==
    IF n = 0 THEN [heap |-> hp, slice |-> [nil |-> FALSE, ptr |-> 0, len |-> 0, cap |-> 0]]
    ELSE [heap  |-> Append(hp, [i \in 1..n |-> NamedColumn(<<>>)]),
          slice |-> [nil |-> FALSE, ptr |-> Len(hp) + 1, len |-> 0, cap |-> n]]

\* append(s, c) with the new capacity nc the runtime picks when it must grow
AppendSlice(hp, s, c, nc) ==
    IF s.len < s.cap
    THEN [heap  |-> [hp EXCEPT ![s.ptr][s.len + 1] = c],
          slice |-> [s EXCEPT !.len = s.len + 1]]
    ELSE [heap  |-> Append(hp, [i \in 1..nc |->
                                  IF i <= s.len THEN hp[s.ptr][i]
                                  ELSE IF i = s.len + 1 THEN c
                                  ELSE NamedColumn(<<>>)]),
          slice |-> [nil |-> FALSE, ptr |-> Len(hp) + 1, len |-> s.len + 1, cap |-> nc]]

\* the capacities a growing append may end with: a tight fit or a doubling
Grown(s) == {s.len + 1, 2 * (s.len + 1)}

\* (mutant) the clone is the source slice itself
CloneAlias(hp, s) == [heap |-> hp, slice |-> s]

\* The appends of Header.Clone onto he, from index i of the source on.
RECURSIVE CloneFrom(_, _, _, _)
CloneFrom(hp, s, he, i) ==
    IF i >= s.len THEN [heap |-> hp, slice |-> he]
    ELSE LET r == AppendSlice(hp, he, ColumnClone(hp[s.ptr][i + 1]), he.len + 1)
         IN  CloneFrom(r.heap, s, r.slice, i + 1)

\* Header.Clone
CloneSlice(hp, s) ==
    LET m == MakeSlice(hp, s.len)
    IN  CloneFrom(m.heap, s, m.slice, 0)

\* Header.Clear: h[:0]
ClearSlice(s) == [s EXCEPT !.len = 0]

\* reflect.DeepEqual on two HeaderColumn values: field by field; two func
\* values are deeply equal only when both are nil.
ColumnDeepEqual(a, b) ==
    /\ a.Name = b.Name
    /\ a.Align = b.Align
    /\ (a.Decorator = "nil" /\ b.Decorator = "nil")
    /\ a.Wide = b.Wide
    /\ a.MX = b.MX
    /\ a.Time = b.Time
    /\ a.Capacity = b.Capacity
    /\ a.VS = b.VS

\* reflect.DeepEqual on two slices: same nil-ness, same length, and the same
\* first element's address or deeply equal elements.
SliceDeepEqual(hp, a, b) ==
    /\ a.nil = b.nil
    /\ a.len = b.len
    /\ \/ (a.ptr = b.ptr /\ a.ptr # 0)
       \/ \A i \in 1..a.len : ColumnDeepEqual(hp[a.ptr][i], hp[b.ptr][i])

\* Header.Diff
Diff(hp, a, b) ==
    IF a.len # b.len THEN TRUE ELSE ~SliceDeepEqual(hp, a, b)

HeapPool == {Plain(ageCol, FALSE), Rich(LABELS, TRUE)}

\* the source header: nil, or n columns in an array with room for n or n+1
SliceInit ==
    /\ \E elems \in SeqsUpTo(HeapPool, MaxHeapCols) :
          \/ /\ elems = <<>>
             /\ hs \in {NoSlice, [nil |-> FALSE, ptr |-> 0, len |-> 0, cap |-> 0]}
             /\ heap = <<>>
          \/ \E spare \in {0, 1} :
                /\ Len(elems) + spare > 0
                /\ heap = <<elems \o [i \in 1..spare |-> NamedColumn(<<>>)]>>
                /\ hs = [nil |-> FALSE, ptr |-> 1, len |-> Len(elems),
                         cap |-> Len(elems) + spare]
    /\ hc = NoSlice
    /\ h = <<>>
    /\ cols = <<>>
    /\ arg = <<>>
    /\ wide = FALSE
    /\ op = "init"
    /\ out = <<>>
    /\ steps = 0

DoClone ==
    /\ op = "init"
    /\ LET r == CloneSlice(heap, hs)
       IN  heap' = r.heap /\ hc' = r.slice
    /\ op' = "Clone"
    /\ UNCHANGED <<h, cols, arg, wide, out, hs, steps>>

Cloned == op # "init" /\ steps < MaxSteps

WriteClone ==
    /\ Cloned
    /\ \E i \in 0..(hc.len - 1), c \in HeapPool :
          heap' = [heap EXCEPT ![hc.ptr][i + 1] = c]
    /\ op' = "WriteClone"
    /\ steps' = steps + 1
    /\ arg' = <<>> /\ out' = <<>>
    /\ UNCHANGED <<h, cols, wide, hs, hc>>

AppendClone ==
    /\ Cloned
    /\ \E c \in HeapPool, nc \in Grown(hc) :
          LET r == AppendSlice(heap, hc, c, nc)
          IN  heap' = r.heap /\ hc' = r.slice
    /\ op' = "AppendClone"
    /\ steps' = steps + 1
    /\ arg' = <<>> /\ out' = <<>>
    /\ UNCHANGED <<h, cols, wide, hs>>

ClearClone ==
    /\ Cloned
    /\ hc' = ClearSlice(hc)
    /\ op' = "ClearClone"
    /\ steps' = steps + 1
    /\ arg' = <<>> /\ out' = <<>>
    /\ UNCHANGED <<h, cols, wide, heap, hs>>

WriteSrc ==
    /\ Cloned
    /\ \E i \in 0..(hs.len - 1), c \in HeapPool :
          heap' = [heap EXCEPT ![hs.ptr][i + 1] = c]
    /\ op' = "WriteSrc"
    /\ steps' = steps + 1
    /\ arg' = <<>> /\ out' = <<>>
    /\ UNCHANGED <<h, cols, wide, hs, hc>>

AppendSrc ==
    /\ Cloned
    /\ \E c \in HeapPool, nc \in Grown(hs) :
          LET r == AppendSlice(heap, hs, c, nc)
          IN  heap' = r.heap /\ hs' = r.slice
    /\ op' = "AppendSrc"
    /\ steps' = steps + 1
    /\ arg' = <<>> /\ out' = <<>>
    /\ UNCHANGED <<h, cols, wide, hc>>

\* hs.Diff(other), other being the clone or hs itself
DoDiff ==
    /\ op # "init"
    /\ \E other \in {hs, hc} :
          /\ arg' = other
          /\ out' = Diff(heap, hs, other)
    /\ op' = "Diff"
    /\ UNCHANGED <<h, cols, wide, heap, hs, hc, steps>>

SliceNext ==
    \/ DoClone
    \/ WriteClone
    \/ AppendClone
    \/ ClearClone
    \/ WriteSrc
    \/ AppendSrc
    \/ DoDiff

SpecSlice == SliceInit /\ [][SliceNext]_vars

\* ---------------------------------------- what the claims speak about
\* Stated from the columns' names alone, without the scan of IndexOf.
Named(hd, name) == {i \in 0..(Len(hd) - 1) : hd[i + 1].Name = name}

FirstNamed(hd, name) == IF Named(hd, name) = {} THEN -1 ELSE Min(Named(hd, name))

\* the indices some spec resolves to
Resolved(hd, cc) == {FirstNamed(hd, cc[k]) : k \in 1..Len(cc)} \ {-1}

Unresolved(hd, cc) == (0..(Len(hd) - 1)) \ Resolved(hd, cc)

\* the columns whose name no spec spells
Unnamed(hd, cc) ==
    {i \in 0..(Len(hd) - 1) : \A k \in 1..Len(cc) : cc[k] # hd[i + 1].Name}

\* x without its leading and trailing white space
Trimmed(x) ==
    LET solid == {i \in 1..Len(x) : ~IsSpace(x[i])}
    IN  IF solid = {} THEN <<>> ELSE SubSeq(x, Min(solid), Max(solid))

\* P is empty or has the form  name ":" blanks  with a non-empty name
PrefixForm(P) ==
    \/ P = <<>>
    \/ \E c \in 2..Len(P) :
          /\ P[c] = ":"
          /\ \A i \in 1..(c - 1) : P[i] # ":"
          /\ \A i \in (c + 1)..Len(P) : IsSpace(P[i])

\* s = P LABELS "[" key "]": a label-extraction request whose header name is
\* exactly LABELS; p is the length of P, the key has no "[" and no line break.
LabelSplit(s, p) ==
    /\ Len(s) >= p + 3
    /\ PrefixForm(SubSeq(s, 1, p))
    /\ s[p + 1] = "LABELS"
    /\ s[p + 2] = "["
    /\ s[Len(s)] = "]"
    /\ \A i \in (p + 3)..(Len(s) - 1) : s[i] \notin {"[", "\n"}

IsLabelRequest(s) == \E p \in 0..Len(s) : LabelSplit(s, p)

SplitOf(s) == CHOOSE p \in 0..Len(s) : LabelSplit(s, p)

KeyOf(s) == SubSeq(s, SplitOf(s) + 3, Len(s) - 1)

CustomNameOf(s) ==
    IF SplitOf(s) = 0 THEN <<>>
    ELSE Trimmed(SubSeq(s, 1, Min(Colons(s)) - 1))

Customized == op = "Customize" /\ cols # <<>>

\* C1 as stated: with wide set, the result has len(specs) columns plus one
\* for every column of h whose name no spec spells.
C1_AsStated ==
    (Customized /\ wide) => Len(out) = Len(cols) + Cardinality(Unnamed(h, cols))

\* C1 amended: with wide set, the result has len(specs) columns plus one for
\* every column of h that is not the first column named by some spec.
C1_WideLength ==
    (Customized /\ wide) => Len(out) = Len(cols) + Cardinality(Unresolved(h, cols))

C1_Witness ==
    /\ Customized /\ wide
    /\ Len(cols) = 2 /\ cols[1] = cols[2]
    /\ Cardinality(Named(h, cols[1])) >= 2
    /\ Len(out) = Len(h) + 1

\* C2: without wide the result has exactly len(specs) columns, and where the
\* spec names an existing column the result holds the first column of that
\* name with Wide false and every other field as it was.
C2_NarrowResult ==
    (Customized /\ ~wide) =>
        /\ Len(out) = Len(cols)
        /\ \A i \in 1..Len(cols) :
              Named(h, cols[i]) # {} =>
                 LET c == h[FirstNamed(h, cols[i]) + 1]
                 IN  out[i] = HeaderColumn(c.Name, c.Align, c.Decorator, FALSE,
                                           c.MX, c.Time, c.Capacity, c.VS)

C2_Witness ==
    /\ Customized /\ ~wide
    /\ \E i \in 1..Len(cols) :
          /\ Cardinality(Named(h, cols[i])) >= 2
          /\ h[FirstNamed(h, cols[i]) + 1].Wide
          /\ ~out[i].Wide
    /\ \E i \in 1..Len(cols) : out[i].VS /\ out[i].Decorator # "nil"

\* C3: with wide set, the first len(specs) columns are the result without
\* wide and are all non-wide; after them come exactly the columns of h that
\* no spec resolved to, in their order in h, each forced wide and otherwise
\* as it was.
C3_WideTail ==
    (Customized /\ wide) =>
        LET n  == Len(cols)
            un == Unresolved(h, cols)
        IN  /\ Len(out) = n + Cardinality(un)
            /\ SubSeq(out, 1, n) = Customize(h, cols, FALSE)
            /\ \A i \in 1..n : ~out[i].Wide
            /\ \A i \in un :
                  LET c == h[i + 1]
                  IN  out[n + Cardinality({j \in un : j <= i})] =
                         HeaderColumn(c.Name, c.Align, c.Decorator, TRUE,
                                      c.MX, c.Time, c.Capacity, c.VS)

C3_Witness ==
    /\ Customized /\ wide
    /\ Len(h) = 3
    /\ Unresolved(h, cols) = {0, 2}
    /\ ~h[1].Wide /\ h[3].Wide /\ h[1].Name # h[3].Name
    /\ out[Len(cols) + 1].Name = h[1].Name /\ out[Len(cols) + 1].Wide

\* C4: a spec naming no column does not stop the customization and leaves,
\* at its own position, a column with no flag set and no decorator, named by
\* the trimmed custom name of a LABELS request and by "" otherwise.
C4_UnknownSpec ==
    Customized =>
        /\ Len(out) >= Len(cols)
        /\ \A i \in 1..Len(cols) :
              Named(h, cols[i]) = {} =>
                 out[i] = HeaderColumn(IF IsLabelRequest(cols[i])
                                          THEN CustomNameOf(cols[i]) ELSE <<>>,
                                       0, "nil", FALSE, FALSE, FALSE, FALSE, FALSE)

\* a request whose custom name needs trimming, after an unknown plain name
C4_Witness ==
    /\ Customized
    /\ \E i \in 1..Len(cols) :
          /\ Named(h, cols[i]) = {}
          /\ IsLabelRequest(cols[i])
          /\ out[i].Name # <<>>
          /\ Len(out[i].Name) < Min(Colons(cols[i])) - 1

\* C9: with no spec the result is h itself, whatever wide is.
C9_EmptySpecs == (op = "Customize" /\ cols = <<>>) => out = h

C9_Witness ==
    /\ op = "Customize" /\ cols = <<>> /\ wide
    /\ \E i \in 1..Len(h) : ~h[i].Wide
    /\ \E i \in 1..Len(h) : h[i].Wide
    /\ out = h

\* C5: the index list has one entry per spec, in order: the index of the
\* first column named exactly by the spec, wide or not, or -1; so every
\* entry lies in -1..len(h)-1.
C5_IndexList ==
    op = "MapIndices" =>
        /\ Len(out.ii) = Len(cols)
        /\ \A i \in 1..Len(cols) :
              /\ out.ii[i] = FirstNamed(h, cols[i])
              /\ out.ii[i] \in -1..(Len(h) - 1)

\* an unknown plain name first, then a name two columns carry, the first wide
C5_Witness ==
    /\ op = "MapIndices"
    /\ Len(cols) = 2
    /\ ~rgxMatchString(cols[1])
    /\ out.ii[1] = -1
    /\ out.ii[2] = 0
    /\ Cardinality(Named(h, cols[2])) >= 2
    /\ h[1].Wide

\* C6: the bag has an entry at key i exactly when specs[i] is a request of the
\* form [name ":"] LABELS "[" key "]"; the entry holds the trimmed name,
\* "LABELS", the key, and the index of the first column named LABELS or -1.
C6_Bag ==
    op = "MapIndices" =>
        /\ DOMAIN out.eib = {i \in 0..(Len(cols) - 1) : IsLabelRequest(cols[i + 1])}
        /\ \A i \in DOMAIN out.eib :
              out.eib[i] = [IdxInFields |-> FirstNamed(h, LABELS),
                            CustomName  |-> CustomNameOf(cols[i + 1]),
                            HeaderName  |-> LABELS,
                            Key         |-> KeyOf(cols[i + 1])]

\* a spec that matches the pattern with another header name, then a request
C6_Witness ==
    /\ op = "MapIndices"
    /\ Len(cols) = 2
    /\ rgxMatchString(cols[1])
    /\ DOMAIN out.eib = {1}
    /\ out.eib[1].IdxInFields >= 0
    /\ out.eib[1].CustomName # <<>>
    /\ out.eib[1].Key # <<>>

\* C10: IndexOf yields the smallest index of a column of that name that is
\* not wide when wide columns are excluded, with true, and (-1, false) when
\* there is none; HasAge holds exactly when some column is named "AGE".
C10_IndexOf ==
    /\ op = "IndexOf" =>
          LET cand == {i \in Named(h, arg) : wide \/ ~h[i + 1].Wide}
          IN  out = IF cand = {} THEN [idx |-> -1, ok |-> FALSE]
                    ELSE [idx |-> Min(cand), ok |-> TRUE]
    /\ op = "HasAge" => (out <=> \E i \in 1..Len(h) : h[i].Name = <<"AGE">>)

\* wide columns excluded: the first column of the name is wide and is passed over
C10_Witness ==
    /\ op = "IndexOf" /\ ~wide
    /\ FirstNamed(h, arg) = 0 /\ h[1].Wide
    /\ out.ok /\ out.idx = 2

\* C7: Diff is false for identical schemas (a header and its clone, with or
\* without decorators, empty or nil) and true when the lengths differ or
\* some column differs in some field.
C7_AsStated ==
    op = "Diff" => (out <=> ViewOf(heap, hs) # ViewOf(heap, arg))

\* C8: the clone has the source's columns in the source's order, and no
\* write to, append on or clearing of one header changes the other's columns.
C8_CloneIndependent ==
    [][/\ op' = "Clone" => ViewOf(heap', hc') = ViewOf(heap, hs)
       /\ op' \in {"Clone", "WriteClone", "AppendClone", "ClearClone"} =>
             ViewOf(heap', hs') = ViewOf(heap, hs)
       /\ op' \in {"WriteSrc", "AppendSrc"} =>
             ViewOf(heap', hc') = ViewOf(heap, hc)]_vars

\* a cell of the clone was overwritten and the source still reads as before
C8_Witness ==
    /\ op = "WriteClone"
    /\ hs.len = 2 /\ hc.len = 2
    /\ ViewOf(heap, hs)[1] # ViewOf(heap, hc)[1]
    /\ hs.ptr # hc.ptr

====
